---- MODULE Spec2Model ----
(***************************************************************************)
(* Model of the breed-folder cleaner of create_dataset.py                  *)
(* (clean_breed_folder and the helpers it calls) and of the iteration of   *)
(* main that downloads into a breed folder (crawl_breed) and cleans it,    *)
(* of main's loop over its breed list and of the manifest and the report   *)
(* main writes after the loop (scan_and_manifest).                         *)
(*                                                                         *)
(* A folder is a map from paths to blobs (file contents).  A blob is an    *)
(* integer: k > 0 is an original downloaded content, -k is the JPEG that   *)
(* exif_normalize_and_convert_jpg writes when it converts blob k, 0 is     *)
(* "no such file".  Two files hold the same blob exactly when they are     *)
(* byte-identical, so the MD5 digest of a file is modelled by its blob.    *)
(* What the libraries report about a blob (Pillow decode, OpenCV size,     *)
(* conversion, MobileNetV2 prediction, perceptual hash) is an input: it is *)
(* either fixed by the initial state or drawn the first time the code asks *)
(* for it, and then remembered, so the same bytes always give the same     *)
(* answer.                                                                 *)
(*                                                                         *)
(* Pillow, OpenCV and numpy are listed as minimum dependencies (docstring   *)
(* lines 19-20): PIL_OK is TRUE.  TensorFlow and imagehash may be missing. *)
(***************************************************************************)
EXTENDS Integers, Sequences, FiniteSets, TLC

VARIABLES
    fs,          \* fs[f][p]: blob stored at path p of folder f (0 = no file)
    props,       \* props[c]: what the libraries report about blob c
    locked,      \* locked[f]: paths of f on which os.remove was refused
    args,        \* the parsed command line options used by the cleaner
    mods,        \* module globals TF_OK and IMAGEHASH_OK
    cat_filter,  \* the CatFilter object built by main
    run,         \* run[f]: the locals of the clean_breed_folder call on f
    breed,       \* breed[f]: the locals of main's iteration and crawl_breed on f
    budget,      \* budget[f]: iterations of main on f still to come
    main         \* the locals of main: its breed list, its loop, what it wrote

vars == <<fs, props, locked, args, mods, cat_filter, run, breed, budget, main>>

-----------------------------------------------------------------------------
(* Bounds of the model *)

MaxFiles == 3        \* files in the folder of the general specification
MaxHashFiles == 4    \* files in the folder of the near-duplicate specification
MaxFaults == 1       \* operating-system faults (refused delete, read error) per run
MaxTarget == 2       \* --images-per-breed, files in the folder of the download specification
MaxPairFiles == 2    \* files in the first folder of the two-folder specification

-----------------------------------------------------------------------------
(* Program constants *)

PIL_OK == TRUE
min_side == 128              \* --min-size default
cat_threshold == 20          \* --cat-threshold default 0.20, in percent
CatClassLo == 281
CatClassHi == 285
NearDupThreshold == 6
NoFile == 0

Folders == {"A", "B"}
Bases == <<"a", "b">>
exts == <<"jpg", "jpeg", "png", "bmp", "webp", "gif">>

-----------------------------------------------------------------------------
(* Paths and directory scan *)

\* A path inside a folder is <<base name, extension>>.
splitext_base(p) == p[1]
splitext_ext(p) == p[2]
JpgPath(p) == <<splitext_base(p), "jpg">>

\* glob returns, per extension pattern, the matching files in directory order.
GlobOrder ==
    [k \in 1..(Len(exts) * Len(Bases)) |->
        <<Bases[((k - 1) % Len(Bases)) + 1], exts[((k - 1) \div Len(Bases)) + 1]>>]

AllPaths == {GlobOrder[k] : k \in DOMAIN GlobOrder}

exists(dir, p) == dir[p] # NoFile

list_images(dir) == SelectSeq(GlobOrder, LAMBDA p : exists(dir, p))

EmptyDir == [p \in AllPaths |-> NoFile]

-----------------------------------------------------------------------------
(* Breed names and breed folders *)

\* A breed name is the sequence of its characters.
Upper == <<"A", "B", "C", "D", "E", "F", "G", "H", "I", "J", "K", "L", "M",
           "N", "O", "P", "Q", "R", "S", "T", "U", "V", "W", "X", "Y", "Z">>
Lower == <<"a", "b", "c", "d", "e", "f", "g", "h", "i", "j", "k", "l", "m",
           "n", "o", "p", "q", "r", "s", "t", "u", "v", "w", "x", "y", "z">>
Digits == {"0", "1", "2", "3", "4", "5", "6", "7", "8", "9"}
Whitespace == {" "}

lower(c) == IF \E i \in DOMAIN Upper : Upper[i] = c
            THEN Lower[CHOOSE i \in DOMAIN Upper : Upper[i] = c]
            ELSE c

\* str.strip(chars)
RECURSIVE lstrip(_, _)
lstrip(s, chars) ==
    IF s # <<>> /\ Head(s) \in chars THEN lstrip(Tail(s), chars) ELSE s

RECURSIVE rstrip(_, _)
rstrip(s, chars) ==
    IF s # <<>> /\ s[Len(s)] \in chars
    THEN rstrip(SubSeq(s, 1, Len(s) - 1), chars) ELSE s

strip(s, chars) == rstrip(lstrip(s, chars), chars)

\* re.sub(r"[^a-z0-9]+", "_", s)
RECURSIVE sub_non_alnum(_)
sub_non_alnum(s) ==
    LET alnum == {Lower[i] : i \in DOMAIN Lower} \cup Digits
    IN IF s = <<>> THEN <<>>
       ELSE IF Head(s) \in alnum THEN <<Head(s)>> \o sub_non_alnum(Tail(s))
       ELSE <<"_">> \o sub_non_alnum(lstrip(s, {c \in {s[i] : i \in DOMAIN s} :
                                                  c \notin alnum}))

\* re.sub(r"_+", "_", s)
RECURSIVE sub_underscores(_)
sub_underscores(s) ==
    IF s = <<>> THEN <<>>
    ELSE IF Head(s) = "_" THEN <<"_">> \o sub_underscores(lstrip(s, {"_"}))
    ELSE <<Head(s)>> \o sub_underscores(Tail(s))

\* lines 239-243
slugify(name) ==
    strip(sub_underscores(sub_non_alnum(
              [i \in DOMAIN strip(name, Whitespace) |->
                  lower(strip(name, Whitespace)[i])])), {"_"})

\* The entries of CAT_BREEDS whose folders are modelled, in list order:
\* "Dwelf cat" (line 106), "Elf cat" and "Dwelf cat" (line 142).
DwelfCat == <<"D", "w", "e", "l", "f", " ", "c", "a", "t">>
ElfCat == <<"E", "l", "f", " ", "c", "a", "t">>
CAT_BREEDS == <<DwelfCat, ElfCat, DwelfCat>>

\* lines 618 and 662: the slug of every breed of the list
Slugs == [name \in {CAT_BREEDS[k] : k \in DOMAIN CAT_BREEDS} |-> slugify(name)]

\* os.path.join(out, breed_slug): the folder a slug names.
BreedDir(breed_slug) ==
    IF breed_slug = <<"d", "w", "e", "l", "f", "_", "c", "a", "t">> THEN "A" ELSE "B"

\* main before its loop, iterating over breeds, workers iterations at a time
\* (one in main as written).
FreshMain(breeds, workers) ==
    [breeds |-> breeds, workers |-> workers, idx |-> 0, pc |-> "loop",
     manifest |-> <<>>, report |-> [total_breeds |-> 0, total_images |-> 0],
     \* history, not read by the code
     manifest_writes |-> 0, report_writes |-> 0, written_at |-> 0]

-----------------------------------------------------------------------------
(* What the libraries report about a blob *)

Jpg(c) == 0 - c

DecodeOutcomes == {"ok", "unreadable", "raises"}
Sizes == {<<0, 0>>, <<min_side - 1, min_side>>, <<min_side, min_side + 1>>}
ClsError == [ok |-> FALSE, top |-> 0, prob |-> 0]
Pred(top, prob) == [ok |-> TRUE, top |-> top, prob |-> prob]
Predictions ==
    {ClsError, Pred(CatClassLo - 1, cat_threshold + 1), Pred(CatClassLo, cat_threshold),
     Pred(CatClassHi, cat_threshold - 1), Pred(CatClassHi + 1, cat_threshold + 1)}
\* a failed inference, a cat class exactly at the threshold
LazyPredictions == {ClsError, Pred(CatClassLo, cat_threshold)}
HashNone == [ok |-> FALSE, h |-> 0]
Hash(h) == [ok |-> TRUE, h |-> h]
\* no hash, and two hashes 7 bits apart
LazyHashes == {HashNone, Hash(0), Hash(127)}
\* Hashes whose mutual distances are 1, 5, 6, 7, 8, 10, 11 and more.
NearDupHashes == {0, 63, 127, 1984, 63488, 65280}

Unknown ==
    [seen |-> {}, dec |-> "ok", size |-> <<0, 0>>, conv |-> TRUE,
     cls |-> ClsError, ph |-> HashNone]

Valid(pred, hash) ==
    [seen |-> {"dec", "size", "conv", "cls", "ph"}, dec |-> "ok",
     size |-> <<min_side, min_side + 1>>, conv |-> TRUE, cls |-> pred, ph |-> hash]

ValidNoHash(pred) == [Valid(pred, HashNone) EXCEPT !.seen = @ \ {"ph"}]

\* The answers the library may give for field fld of blob c.
Possible(c, fld, Domain) ==
    IF c = NoFile THEN {Unknown[fld]}
    ELSE IF fld \in props[c].seen THEN {props[c][fld]}
    ELSE Domain

Reveal(pr, c, fld, v) ==
    IF c = NoFile \/ fld \in pr[c].seen THEN pr
    ELSE [pr EXCEPT ![c] = [@ EXCEPT ![fld] = v, !.seen = @ \cup {fld}]]

-----------------------------------------------------------------------------
(* Pure helpers of the source *)

RECURSIVE bit_count(_)
bit_count(n) == IF n = 0 THEN 0 ELSE (n % 2) + bit_count(n \div 2)

RECURSIVE xor(_, _)
xor(a, b) ==
    IF a = 0 /\ b = 0 THEN 0
    ELSE (((a % 2) + (b % 2)) % 2) + 2 * xor(a \div 2, b \div 2)

hamming_distance(a, b) == bit_count(xor(a, b))

Min(a, b) == IF a < b THEN a ELSE b

\* line 408: the size test of stage 1
TooSmall(w, h) == w = 0 \/ h = 0 \/ Min(w, h) < min_side

\* every file converted, whatever its name
NeedsConversionAlways(dir, p) == TRUE

\* line 420: does this file get converted?
NeedsConversion(dir, p) ==
    splitext_ext(p) \notin {"jpg", "jpeg"} \/ ~exists(dir, JpgPath(p))

\* the conversion attempted without jpg_only
ConvertsAnyway(dir, p) == PIL_OK /\ NeedsConversion(dir, p)

\* lines 417-420: is the conversion of this file attempted?
Converts(dir, p) == args.jpg_only /\ PIL_OK /\ NeedsConversion(dir, p)

\* CatFilter.__init__: the object after construction.  load_ok: MobileNetV2()
\* did not raise.
CatFilterInit(threshold, disabled, tf_ok, load_ok) ==
    LET dis == disabled \/ ~tf_ok
    IN IF dis THEN [threshold |-> threshold, disabled |-> TRUE, model |-> "None"]
       ELSE IF load_ok
            THEN [threshold |-> threshold, disabled |-> FALSE, model |-> "MobileNetV2"]
            ELSE [threshold |-> threshold, disabled |-> TRUE, model |-> "None"]

\* is_cat without its first test: a disabled filter runs the inference too
is_cat_NoBypass(cf, c, pr) ==
    IF c = NoFile \/ ~pr.ok \/ cf.model = "None" THEN FALSE
    ELSE (CatClassLo <= pr.top /\ pr.top <= CatClassHi) /\ pr.prob >= cf.threshold

\* the confidence compared with > instead of >=
is_cat_AboveThreshold(cf, c, pr) ==
    IF cf.disabled \/ cf.model = "None" THEN TRUE
    ELSE IF c = NoFile \/ ~pr.ok THEN FALSE
    ELSE (CatClassLo <= pr.top /\ pr.top <= CatClassHi) /\ pr.prob > cf.threshold

\* a failed classification taken for a cat
is_cat_ErrorKeeps(cf, c, pr) ==
    IF cf.disabled \/ cf.model = "None" THEN TRUE
    ELSE IF c = NoFile \/ ~pr.ok THEN TRUE
    ELSE (CatClassLo <= pr.top /\ pr.top <= CatClassHi) /\ pr.prob >= cf.threshold

\* CatFilter.is_cat on a file holding blob c with prediction pr.
is_cat(cf, c, pr) ==
    IF cf.disabled \/ cf.model = "None" THEN TRUE
    ELSE IF c = NoFile \/ ~pr.ok THEN FALSE
    ELSE (CatClassLo <= pr.top /\ pr.top <= CatClassHi) /\ pr.prob >= cf.threshold

\* the comparison written < instead of <=
IsNearDupStrict(seen_hashes, ph, t) ==
    \E k \in 1..Len(seen_hashes) : hamming_distance(seen_hashes[k].h, ph) < t

\* lines 502-506: is ph within the threshold of an accepted hash?
IsNearDup(seen_hashes, ph, t) ==
    \E k \in 1..Len(seen_hashes) : hamming_distance(seen_hashes[k].h, ph) <= t

\* the comparison written == instead of <=
AcceptedExact(hs, t, k) ==
    LET F[n \in 0..k] ==
          IF n = 0 THEN <<>>
          ELSE LET prev == F[n - 1]
               IN IF \E j \in 1..Len(prev) : hamming_distance(prev[j].h, hs[n]) = t
                  THEN prev
                  ELSE Append(prev, [p |-> n, h |-> hs[n]])
    IN F[k]

\* lines 478-515 on the hash sequence hs with threshold t in place of the
\* literal 6: the accepted list (seen_hashes) after the first k files.
Accepted(hs, t, k) ==
    LET F[n \in 0..k] ==
          IF n = 0 THEN <<>>
          ELSE LET prev == F[n - 1]
               IN IF IsNearDup(prev, hs[n], t)
                  THEN prev
                  ELSE Append(prev, [p |-> n, h |-> hs[n]])
    IN F[k]

\* the number of files the near-duplicate stage removes from hs at threshold t
NearDupRemoved(hs, t) == Len(hs) - Len(Accepted(hs, t, Len(hs)))

-----------------------------------------------------------------------------
(* The call's working state: s = [dir, locked, r] is the folder, its        *)
(* undeletable paths and the locals of the call.                           *)

RemoveOk(s, p, perm) == exists(s.dir, p) /\ p \notin s.locked /\ perm

\* a remove that deletes nothing
os_remove_KeepsFile(s, p, perm) == s

\* os.remove(p) inside try/except: the file goes, or the error is swallowed.
os_remove(s, p, perm) ==
    IF RemoveOk(s, p, perm) THEN [s EXCEPT !.dir[p] = NoFile]
    ELSE [s EXCEPT !.r.remove_failed = TRUE,
                   !.locked = IF exists(s.dir, p) THEN @ \cup {p} ELSE @]

\* stats.<counter> += 1 for the scan entry src
Tally(s, src, counter) ==
    [s EXCEPT !.r.stats[counter] = @ + 1, !.r.tally[src] = @ \cup {counter}]

\* the counter forgotten
RemoveNoTally(s, e, perm, counter) == os_remove(s, e.p, perm)

\* lines 399-404 and 409-414: the counter is bumped inside the try, after the
\* remove, so a refused remove skips it.
RemoveThenTally(s, e, perm, counter) ==
    IF RemoveOk(s, e.p, perm) THEN Tally(os_remove(s, e.p, perm), e.src, counter)
    ELSE os_remove(s, e.p, perm)

\* lines 431-435, 446-450, 459-463, 466-470, 488-499, 508-512: the counter is
\* bumped after the try, whatever the remove did.
RemoveAndTally(s, e, perm, counter) == Tally(os_remove(s, e.p, perm), e.src, counter)

\* lines 395-438: one iteration of the stage-1 loop on scan entry e.
\* d: ensure_pillow_image, sz: cv2_read_size, cv: exif_normalize_and_convert_jpg.
Stage1File(s, e, d, sz, cv, perm) ==
    LET p == e.p
        next == [s EXCEPT !.r.i = @ + 1]
    IN IF d = "raises" THEN [s EXCEPT !.r.pc = "raised"]
       ELSE IF d = "unreadable" /\ PIL_OK
            THEN RemoveThenTally(next, e, perm, "removed_broken")
       ELSE IF TooSmall(sz[1], sz[2])
            THEN RemoveThenTally(next, e, perm, "removed_small")
       ELSE IF Converts(s.dir, p)
            THEN IF cv
                 THEN LET w == [next EXCEPT !.dir[JpgPath(p)] = Jpg(s.dir[p]),
                                            !.r.nconv = @ + 1]
                          w2 == IF ~args.keep_intermediate THEN os_remove(w, p, perm) ELSE w
                      IN [w2 EXCEPT !.r.kept_paths =
                                        Append(@, [p |-> JpgPath(p), src |-> e.src])]
                 ELSE RemoveAndTally(next, e, perm, "removed_broken")
       ELSE [next EXCEPT !.r.kept_paths = Append(@, e)]

\* lines 442-450: one iteration of the stage-2 loop.
Stage2File(s, e, pr, perm) ==
    LET next == [s EXCEPT !.r.i = @ + 1]
    IN IF is_cat(cat_filter, s.dir[e.p], pr)
       THEN [next EXCEPT !.r.filtered_paths = Append(@, e)]
       ELSE RemoveAndTally(next, e, perm, "removed_notcat")

\* a file whose digest cannot be computed taken for a duplicate
Stage3FileFailureIsDuplicate(s, e, ioerr, perm) ==
    LET h == s.dir[e.p]
        next == [s EXCEPT !.r.i = @ + 1,
                          !.r.md5_log = Append(@, [src |-> e.src, p |-> e.p,
                                                   h |-> IF ioerr THEN NoFile ELSE h])]
    IN IF h = NoFile \/ ioerr \/ h \in DOMAIN s.r.seen_md5
       THEN RemoveAndTally(next, e, perm, "removed_dup_md5")
       ELSE [next EXCEPT !.r.seen_md5 = (h :> e.p) @@ @,
                         !.r.md5_filtered = Append(@, e)]

\* lines 455-473: one iteration of the stage-3 loop.  The digest of a file is
\* its blob; file_md5 raises when the file is gone or the read fails.
Stage3File(s, e, ioerr, perm) ==
    LET h == s.dir[e.p]
        next == [s EXCEPT !.r.i = @ + 1,
                          !.r.md5_log = Append(@, [src |-> e.src, p |-> e.p,
                                                   h |-> IF ioerr THEN NoFile ELSE h])]
    IN IF h = NoFile \/ ioerr
       THEN RemoveAndTally(next, e, perm, "removed_broken")
       ELSE IF h \in DOMAIN s.r.seen_md5
            THEN RemoveAndTally(next, e, perm, "removed_dup_md5")
       ELSE [next EXCEPT !.r.seen_md5 = (h :> e.p) @@ @,
                         !.r.md5_filtered = Append(@, e)]

\* the hash appended to seen_hashes before the comparison decides
Stage4FileAppendsRemoved(s, e, hr, perm) ==
    LET next == [s EXCEPT !.r.i = @ + 1]
    IN IF ~hr.ok
       THEN RemoveAndTally(next, e, perm, "removed_broken")
       ELSE IF IsNearDup(s.r.seen_hashes, hr.h, NearDupThreshold)
            THEN LET w == RemoveAndTally(next, e, perm, "removed_dup_phash")
                 IN [w EXCEPT !.r.seen_hashes = Append(@, [p |-> e.p, h |-> hr.h]),
                              !.r.ph_log = Append(@, [src |-> e.src, p |-> e.p, h |-> hr.h,
                                                      dup |-> TRUE])]
       ELSE [next EXCEPT !.r.seen_hashes = Append(@, [p |-> e.p, h |-> hr.h]),
                         !.r.final_paths = Append(@, e),
                         !.r.ph_log = Append(@, [src |-> e.src, p |-> e.p, h |-> hr.h,
                                                 dup |-> FALSE])]

\* lines 479-515: one iteration of the stage-4 loop.  hr is what
\* imagehash.phash (IMAGEHASH_OK) or simple_dhash (otherwise) gives: a hash,
\* or a failure (an exception, resp. None).
Stage4File(s, e, hr, perm) ==
    LET next == [s EXCEPT !.r.i = @ + 1]
    IN IF ~hr.ok
       THEN RemoveAndTally(next, e, perm, "removed_broken")
       ELSE IF IsNearDup(s.r.seen_hashes, hr.h, NearDupThreshold)
            THEN LET w == RemoveAndTally(next, e, perm, "removed_dup_phash")
                 IN [w EXCEPT !.r.ph_log = Append(@, [src |-> e.src, p |-> e.p, h |-> hr.h,
                                                        dup |-> TRUE])]
       ELSE [next EXCEPT !.r.seen_hashes = Append(@, [p |-> e.p, h |-> hr.h]),
                         !.r.final_paths = Append(@, e),
                         !.r.ph_log = Append(@, [src |-> e.src, p |-> e.p, h |-> hr.h,
                                                 dup |-> FALSE])]

-----------------------------------------------------------------------------
(* Actions *)

\* the digest map kept in one dictionary for all folders
LocalSharedDigests(f) ==
    LET all == UNION {DOMAIN run[g].seen_md5 : g \in Folders}
        shared == [h \in all |->
                     run[CHOOSE g \in Folders : h \in DOMAIN run[g].seen_md5].seen_md5[h]]
    IN [dir |-> fs[f], locked |-> locked[f], r |-> [run[f] EXCEPT !.seen_md5 = shared]]

\* the perceptual-hash index kept in one list for all folders
LocalSharedHashes(f) ==
    LET others == CHOOSE g \in Folders : g # f
    IN [dir |-> fs[f], locked |-> locked[f],
        r |-> [run[f] EXCEPT !.seen_hashes = run[others].seen_hashes \o @]]

\* lines 388-390, 453, 478: the folder and the locals of the call on f
Local(f) == [dir |-> fs[f], locked |-> locked[f], r |-> run[f]]

\* the list a stage appends the files it keeps to
OutList(r, stage) ==
    IF stage = 1 THEN r.kept_paths
    ELSE IF stage = 2 THEN r.filtered_paths
    ELSE IF stage = 3 THEN r.md5_filtered
    ELSE r.final_paths

\* History: stage `stage` has examined the file of entry e, and dropped it
\* unless it appended it to its list; gone: no file is left at its path;
\* wrote: the file a successful conversion of the step saved (line 421).
Examined(s, s2, e, stage) ==
    [s2 EXCEPT !.r.ops =
        Append(@, [stage |-> stage, src |-> e.src, p |-> e.p,
                   removed |-> Len(OutList(s2.r, stage)) = Len(OutList(s.r, stage)),
                   gone |-> ~exists(s2.dir, e.p),
                   wrote |-> IF s2.r.nconv # s.r.nconv THEN {JpgPath(e.p)} ELSE {}])]

\* History: the pass on another folder is inside its loops.
OtherPassRunning(f) ==
    \E g \in Folders \ {f} : run[g].pc \in {"stage1", "stage2", "stage3", "stage4"}

\* nf: the operating-system faults the step drew
Commit(f, s, pr, nf) ==
    /\ nf <= budget[f].faults
    /\ fs' = [fs EXCEPT ![f] = s.dir]
    /\ locked' = [locked EXCEPT ![f] = s.locked]
    /\ run' = [run EXCEPT ![f] = [s.r EXCEPT !.overlap = @ \/ OtherPassRunning(f)]]
    /\ props' = pr
    /\ budget' = [budget EXCEPT ![f].faults = @ - nf]
    /\ UNCHANGED <<args, mods, cat_filter, breed, main>>

Perms(f) == IF budget[f].faults > 0 THEN BOOLEAN ELSE {TRUE}
NewLocks(s, s2) == IF s2.locked # s.locked THEN 1 ELSE 0

DecodeOf(c) == IF c = NoFile THEN {"unreadable"} ELSE Possible(c, "dec", DecodeOutcomes)
SizeOf(c) == Possible(c, "size", Sizes)
ConvOf(c) == IF c = NoFile THEN {FALSE} ELSE Possible(c, "conv", BOOLEAN)
ClsOf(c) == Possible(c, "cls", LazyPredictions)
HashOf(c) == Possible(c, "ph", LazyHashes)

\* the locals of main's iteration and of crawl_breed before the iteration
FreshBreed ==
    [existing |-> 0, skipped |-> FALSE, left |-> 0, ok |-> FALSE,
     \* history of the iteration, not read by the code
     attempts |-> <<>>, error_logged |-> FALSE, downloaded |-> 0]

\* What crawler.crawl may do: raise, return having saved nothing, or return
\* having saved one picture.
CrawlOutcomes == {"raises", "nothing", "file"}

\* The folder after a crawl: the picture saved is blob 1, under the first
\* free .jpg name.
Deliver(dir, out) ==
    LET free == SelectSeq(GlobOrder, LAMBDA p : splitext_ext(p) = "jpg" /\ ~exists(dir, p))
    IN IF out = "file" /\ 1 \in DOMAIN props /\ free # <<>>
       THEN [dir EXCEPT ![free[1]] = 1]
       ELSE dir

FreshRun ==
    [pc |-> "idle", i |-> 1, paths |-> <<>>, kept_paths |-> <<>>,
     filtered_paths |-> <<>>, md5_filtered |-> <<>>, final_paths |-> <<>>,
     seen_md5 |-> <<>>, seen_hashes |-> <<>>,
     stats |-> [before |-> 0, removed_small |-> 0, removed_broken |-> 0,
                removed_notcat |-> 0, removed_dup_md5 |-> 0,
                removed_dup_phash |-> 0, after |-> 0],
     \* history of the call, not read by the code
     tally |-> <<>>, remove_failed |-> FALSE, nconv |-> 0, md5_log |-> <<>>,
     ph_log |-> <<>>, ops |-> <<>>, overlap |-> FALSE,
     dir0 |-> EmptyDir, hist |-> <<>>]

\* Bing tried whatever Google did
AfterGoogleAlwaysBing(engine, ok) ==
    IF engine \in {"auto", "bing"} THEN "bing" ELSE "clean"

\* crawl_breed lines 581-600: where the control goes after an engine's
\* attempt.  ok: the crawl did not raise.
AfterGoogle(engine, ok) ==
    IF ~ok /\ engine \in {"auto", "bing"} THEN "bing" ELSE "clean"

\* an iteration that downloads whatever the folder holds
FirstStepAlwaysCrawls(existing) ==
    IF args.engine \in {"auto", "google"} THEN "google" ELSE "bing"

\* main line 668 and crawl_breed lines 543-550, 581-589: where the control
\* goes from the count of the files found: to the cleaning when the download
\* is skipped or nothing is left to fetch, else to the first engine.
FirstStep(existing) ==
    LET crawls == existing < args.images_per_breed
        left == Min(args.max_total_per_breed, args.images_per_breed - existing)
    IN IF ~crawls \/ left <= 0 THEN "clean"
       ELSE IF args.engine \in {"auto", "google"} THEN "google"
       ELSE AfterGoogle(args.engine, FALSE)

\* an exception raised inside the iteration ends the loop
IterationEndedUnlessRaised(pc) == pc \in {"idle", "done"}

\* main lines 660-703: the iteration on a folder has not begun, or has ended
\* by reaching the end of the try block or by the except clause of line 699.
IterationEnded(pc) == pc \in {"idle", "done", "raised"}

\* The folders on which an iteration is under way.
Running == {g \in Folders : ~IterationEnded(run[g].pc)}

\* main lines 660-678 and crawl_breed lines 537-582: the iteration for breed
\* folder f starts: count the files, skip the download or enter crawl_breed
\* up to its first engine.
Breed(f) ==
    /\ main.pc = "loop"
    /\ main.idx < Len(main.breeds)
    /\ BreedDir(Slugs[main.breeds[main.idx + 1]]) = f
    /\ Cardinality(Running) < main.workers
    /\ IterationEnded(run[f].pc)
    /\ budget[f].calls > 0
    /\ main' = [main EXCEPT !.idx = @ + 1]
    /\ LET existing == Len(list_images(fs[f]))
           crawls == existing < args.images_per_breed
           left == Min(args.max_total_per_breed, args.images_per_breed - existing)
       IN /\ breed' = [breed EXCEPT ![f] =
                          [FreshBreed EXCEPT !.existing = existing, !.skipped = ~crawls,
                                             !.left = IF crawls THEN left ELSE 0]]
          /\ run' = [run EXCEPT ![f].pc = FirstStep(existing),
                                ![f].hist = IF run[f].pc = "idle" THEN <<>>
                                            ELSE Append(run[f].hist, run[f].pc)]
    /\ budget' = [budget EXCEPT ![f].calls = @ - 1]
    /\ UNCHANGED <<fs, props, locked, args, mods, cat_filter>>

\* One attempt of an engine (_crawl_google, _crawl_bing) inside its try.
Attempt(f, engine, out, pc) ==
    /\ fs' = [fs EXCEPT ![f] = Deliver(@, out)]
    /\ breed' = [breed EXCEPT
                    ![f].attempts = Append(@, [engine |-> engine, ok |-> out # "raises"]),
                    ![f].ok = out # "raises",
                    ![f].error_logged = (out = "raises" /\ pc = "clean"),
                    ![f].downloaded = @ + Cardinality({p \in AllPaths :
                                                         Deliver(fs[f], out)[p] # fs[f][p]})]
    /\ run' = [run EXCEPT ![f].pc = pc]
    /\ UNCHANGED <<props, locked, args, mods, cat_filter, budget, main>>

\* crawl_breed lines 582-587
CrawlGoogle(f) ==
    /\ run[f].pc = "google"
    /\ \E out \in CrawlOutcomes :
          Attempt(f, "google", out, AfterGoogle(args.engine, out # "raises"))

\* crawl_breed lines 589-600
CrawlBing(f) ==
    /\ run[f].pc = "bing"
    /\ \E out \in CrawlOutcomes : Attempt(f, "bing", out, "clean")

\* lines 388-391: the call starts: scan the folder, stats.before
Call(f) ==
    /\ run[f].pc = "clean"
    /\ LET paths == list_images(fs[f])
       IN run' = [run EXCEPT ![f] =
                    [FreshRun EXCEPT
                        !.pc = "stage1",
                        !.paths = [k \in 1..Len(paths) |-> [p |-> paths[k], src |-> k]],
                        !.stats.before = Len(paths),
                        !.tally = [k \in 1..Len(paths) |-> {}],
                        !.dir0 = fs[f],
                        !.hist = run[f].hist]]
    /\ UNCHANGED <<fs, props, locked, args, mods, cat_filter, breed, budget, main>>

Stage1(f) ==
    /\ run[f].pc = "stage1"
    /\ run[f].i <= Len(run[f].paths)
    /\ LET s == Local(f)
           e == run[f].paths[run[f].i]
           c == fs[f][e.p]
       IN \E d \in DecodeOf(c), perm \in Perms(f) :
            \E sz \in (IF d = "ok" THEN SizeOf(c) ELSE {<<0, 0>>}) :
              LET converts == /\ d = "ok"
                              /\ ~TooSmall(sz[1], sz[2])
                              /\ Converts(s.dir, e.p)
              IN \E cv \in (IF converts THEN ConvOf(c) ELSE {FALSE}) :
                   LET s2 == Examined(s, Stage1File(s, e, d, sz, cv, perm), e, 1)
                       pr1 == Reveal(props, c, "dec", d)
                       pr2 == IF d = "ok" THEN Reveal(pr1, c, "size", sz) ELSE pr1
                       pr3 == IF converts THEN Reveal(pr2, c, "conv", cv) ELSE pr2
                       pr4 == IF converts /\ cv
                              THEN Reveal(Reveal(pr3, Jpg(c), "dec", "ok"), Jpg(c), "size", sz)
                              ELSE pr3
                   IN Commit(f, s2, pr4, NewLocks(s, s2))

ClassifierActive == ~(cat_filter.disabled \/ cat_filter.model = "None")

Stage2(f) ==
    /\ run[f].pc = "stage2"
    /\ run[f].i <= Len(run[f].kept_paths)
    /\ LET s == Local(f)
           e == run[f].kept_paths[run[f].i]
           c == fs[f][e.p]
           asks == ClassifierActive /\ c # NoFile
       IN \E pr \in (IF asks THEN ClsOf(c) ELSE {ClsError}), perm \in Perms(f) :
            LET s2 == Examined(s, Stage2File(s, e, pr, perm), e, 2)
            IN Commit(f, s2, IF asks THEN Reveal(props, c, "cls", pr) ELSE props,
                      NewLocks(s, s2))

Stage3(f) ==
    /\ run[f].pc = "stage3"
    /\ run[f].i <= Len(run[f].filtered_paths)
    /\ LET s == Local(f)
           e == run[f].filtered_paths[run[f].i]
           c == fs[f][e.p]
       IN \E ioerr \in (IF c # NoFile /\ budget[f].faults > 0 THEN BOOLEAN ELSE {FALSE}),
             perm \in Perms(f) :
            LET s2 == Examined(s, Stage3File(s, e, ioerr, perm), e, 3)
            IN Commit(f, s2, props, NewLocks(s, s2) + (IF ioerr THEN 1 ELSE 0))

Stage4(f) ==
    /\ run[f].pc = "stage4"
    /\ run[f].i <= Len(run[f].md5_filtered)
    /\ LET s == Local(f)
           e == run[f].md5_filtered[run[f].i]
           c == fs[f][e.p]
       IN \E hr \in (IF c = NoFile THEN {HashNone} ELSE HashOf(c)), perm \in Perms(f) :
            LET s2 == Examined(s, Stage4File(s, e, hr, perm), e, 4)
            IN Commit(f, s2, Reveal(props, c, "ph", hr), NewLocks(s, s2))

\* the stage run whatever remove_near_dup says
NearDupStageAlways == PIL_OK \/ mods.IMAGEHASH_OK

\* line 477
NearDupStageRuns == ~args.no_near_dup /\ (PIL_OK \/ mods.IMAGEHASH_OK)

\* The end of each loop: lines 440, 452, 475-477, 516-525.
AfterLoop(r) ==
    IF r.pc = "stage1" THEN [r EXCEPT !.pc = "stage2", !.i = 1]
    ELSE IF r.pc = "stage2" THEN [r EXCEPT !.pc = "stage3", !.i = 1]
    ELSE IF r.pc = "stage3"
         THEN IF NearDupStageRuns
              THEN [r EXCEPT !.pc = "stage4", !.i = 1]
              ELSE [r EXCEPT !.pc = "done", !.final_paths = r.md5_filtered,
                             !.stats.after = Len(r.md5_filtered)]
    ELSE [r EXCEPT !.pc = "done", !.stats.after = Len(r.final_paths)]

LoopList(r) ==
    IF r.pc = "stage1" THEN r.paths
    ELSE IF r.pc = "stage2" THEN r.kept_paths
    ELSE IF r.pc = "stage3" THEN r.filtered_paths
    ELSE r.md5_filtered

LoopExit(f) ==
    /\ run[f].pc \in {"stage1", "stage2", "stage3", "stage4"}
    /\ run[f].i > Len(LoopList(run[f]))
    /\ run' = [run EXCEPT ![f] = AfterLoop(run[f])]
    /\ UNCHANGED <<fs, props, locked, args, mods, cat_filter, breed, budget, main>>

\* What cv2_read_size makes of the files at the end: a file known to be
\* undecodable or too small is left out, a file known to be a large enough
\* picture is listed, any other file may go either way.
MustSkip(f, p) ==
    LET c == fs[f][p]
    IN \/ "dec" \in props[c].seen /\ props[c].dec # "ok"
       \/ "size" \in props[c].seen /\ TooSmall(props[c].size[1], props[c].size[2])

MaySkip(f, p) ==
    LET c == fs[f][p]
    IN {"dec", "size"} \ props[c].seen # {}

Skips ==
    LET files == {<<f, p>> \in Folders \X AllPaths : exists(fs[f], p)}
        must == {x \in files : MustSkip(x[1], x[2])}
        may == {x \in files \ must : MaySkip(x[1], x[2])}
    IN {must \cup X : X \in SUBSET may}

\* lines 615-638: one record per listed file of every entry of CAT_BREEDS
\* from the k-th on (width and height left out).
RECURSIVE scan_and_manifest(_, _)
scan_and_manifest(k, skip) ==
    IF k > Len(CAT_BREEDS) THEN <<>>
    ELSE LET breed_slug == Slugs[CAT_BREEDS[k]]
             folder == BreedDir(breed_slug)
             listed == SelectSeq(list_images(fs[folder]),
                                 LAMBDA p : <<folder, p>> \notin skip)
         IN [i \in 1..Len(listed) |->
                [breed |-> CAT_BREEDS[k], breed_slug |-> breed_slug,
                 path |-> <<breed_slug, listed[i]>>, md5 |-> fs[folder][listed[i]]]]
            \o scan_and_manifest(k + 1, skip)

\* line 660: the for loop has no breed left and no iteration is under way.
LoopOver == main.idx = Len(main.breeds) /\ Running = {}

\* main lines 705-724: after the loop, build the manifest, write manifest.csv
\* and report.json.
Finish ==
    /\ main.pc = "loop"
    /\ LoopOver
    /\ \E skip \in Skips :
          \A manifest \in {scan_and_manifest(1, skip)} :
             main' = [main EXCEPT !.pc = "end", !.manifest = manifest,
                                  !.manifest_writes = @ + 1,
                                  !.report_writes = @ + 1,
                                  !.report = [total_breeds |-> Len(main.breeds),
                                              total_images |-> Len(manifest)],
                                  !.written_at = main.idx]
    /\ UNCHANGED <<fs, props, locked, args, mods, cat_filter, run, breed, budget>>

\* main's loop
Next == \E f \in Folders :
            \/ Breed(f) \/ CrawlGoogle(f) \/ CrawlBing(f)
            \/ Call(f) \/ Stage1(f) \/ Stage2(f) \/ Stage3(f) \/ Stage4(f) \/ LoopExit(f)

\* main's loop and what follows it
NextMain == Next \/ Finish

-----------------------------------------------------------------------------
(* Initial states *)

\* The files a folder may hold at first: same base with a canonical and a
\* non-canonical extension, and two files of the same extension.
InitPaths == {<<"a", "jpg">>, <<"a", "jpeg">>, <<"a", "png">>, <<"b", "png">>}

SetMax(S) == CHOOSE x \in S : \A y \in S : y <= x

\* Which files are byte-identical: blob numbers in scan order, each new blob
\* taking the next free number.
Labelings(n) ==
    {l \in [1..n -> 1..n] :
        \A i \in 1..n : l[i] <= 1 + SetMax({0} \cup {l[j] : j \in 1..(i - 1)})}

DirOf(S, l) ==
    LET seq == SelectSeq(GlobOrder, LAMBDA p : p \in S)
    IN [p \in AllPaths |->
          IF p \in S THEN l[CHOOSE k \in 1..Len(seq) : seq[k] = p] ELSE NoFile]

BlobsOf(n) == {c \in (0 - n)..n : c # NoFile}

Options == [jpg_only : BOOLEAN, keep_intermediate : BOOLEAN,
            no_near_dup : BOOLEAN, no_is_cat : BOOLEAN]

\* The download options of a run that asks for one picture per breed.
OnePicture == [engine : {"auto"}, images_per_breed : {1}, min_files_to_skip : {1},
               max_total_per_breed : {1}]

ArgsOf(o, d) ==
    [jpg_only |-> o.jpg_only, keep_intermediate |-> o.keep_intermediate,
     no_near_dup |-> o.no_near_dup, no_is_cat |-> o.no_is_cat,
     engine |-> d.engine, images_per_breed |-> d.images_per_breed,
     min_files_to_skip |-> d.min_files_to_skip,
     max_total_per_breed |-> d.max_total_per_breed]

InitMain(opts, dls, tfs, loads, ihs) ==
    /\ args \in {ArgsOf(o, d) : o \in opts, d \in dls}
    /\ mods \in [TF_OK : tfs, IMAGEHASH_OK : ihs, weights_ok : loads]
    /\ cat_filter = CatFilterInit(cat_threshold, args.no_is_cat, mods.TF_OK, mods.weights_ok)
    /\ locked = [f \in Folders |-> {}]
    /\ run = [f \in Folders |-> FreshRun]
    /\ breed = [f \in Folders |-> FreshBreed]

InitCleaner(opts, tfs, loads, ihs) == InitMain(opts, OnePicture, tfs, loads, ihs)

\* Any folder of at most MaxFiles files, what the libraries report drawn as
\* the code asks for it.
AnyFolder ==
    /\ \E S \in {T \in SUBSET InitPaths : Cardinality(T) <= MaxFiles} :
         \E l \in Labelings(Cardinality(S)) :
            fs = [f \in Folders |-> IF f = "A" THEN DirOf(S, l) ELSE EmptyDir]
    /\ props = [c \in BlobsOf(MaxFiles) |-> Unknown]

\* A folder with something for every stage: a cat picture (a.jpg), a
\* byte-identical copy (b.jpg), a re-encoded copy 6 hash bits away (a.jpeg),
\* a picture of something else (b.jpeg), a picture that is too small (a.png)
\* and a file that does not decode (b.png).
MixedDir ==
    [p \in AllPaths |->
        IF p = <<"a", "jpg">> THEN 1
        ELSE IF p = <<"b", "jpg">> THEN 1
        ELSE IF p = <<"a", "jpeg">> THEN 2
        ELSE IF p = <<"b", "jpeg">> THEN 3
        ELSE IF p = <<"a", "png">> THEN 4
        ELSE IF p = <<"b", "png">> THEN 5
        ELSE NoFile]

MixedProps ==
    [c \in BlobsOf(Cardinality({p \in AllPaths : MixedDir[p] # NoFile})) |->
        IF c = 1 THEN Valid(Pred(CatClassLo, cat_threshold), Hash(0))
        ELSE IF c = 2 THEN Valid(Pred(CatClassHi, cat_threshold + 1), Hash(63))
        ELSE IF c = 3 THEN Valid(Pred(CatClassHi + 1, cat_threshold + 1), Hash(65280))
        ELSE IF c = 4 THEN [Valid(ClsError, HashNone) EXCEPT !.size = <<min_side - 1, min_side>>]
        ELSE IF c = 5 THEN [Valid(ClsError, HashNone) EXCEPT !.dec = "unreadable"]
        ELSE Unknown]

MixedFolder ==
    /\ fs = [f \in Folders |-> IF f = "A" THEN MixedDir ELSE EmptyDir]
    /\ props = MixedProps

\* The general specification: one call, any options, a loaded or a disabled
\* classifier, on any small folder or on the mixed folder.
Init ==
    /\ InitCleaner(Options, {TRUE}, {TRUE}, {FALSE})
    /\ (AnyFolder \/ MixedFolder)
    /\ main = FreshMain(SubSeq(CAT_BREEDS, 1, 1), 1)
    /\ budget = [f \in Folders |->
            IF f = "A" THEN [calls |-> 1, faults |-> MaxFaults]
            ELSE [calls |-> 0, faults |-> 0]]

Spec == Init /\ [][Next]_vars

\* The same folders cleaned twice with the same options, the operating system
\* refusing nothing.
InitRerun ==
    /\ InitCleaner(Options, {TRUE}, {TRUE}, {FALSE})
    /\ AnyFolder
    /\ main = FreshMain(<<DwelfCat, DwelfCat>>, 1)
    /\ budget = [f \in Folders |->
            IF f = "A" THEN [calls |-> 2, faults |-> 0]
            ELSE [calls |-> 0, faults |-> 0]]

SpecRerun == InitRerun /\ [][Next]_vars

\* The first n paths of the scan order, holding the blobs 1..n.
FirstFiles(n) ==
    [p \in AllPaths |->
        IF \E k \in 1..n : GlobOrder[k] = p
        THEN CHOOSE k \in 1..n : GlobOrder[k] = p ELSE NoFile]

\* Valid, distinct cat pictures with any perceptual hashes of NearDupHashes,
\* near-duplicate removal on; ihs: the values of IMAGEHASH_OK.
NearDupFolder(ihs) ==
    /\ InitCleaner([jpg_only : {FALSE}, keep_intermediate : {FALSE},
                    no_near_dup : {FALSE}, no_is_cat : {FALSE}],
                   {TRUE}, {TRUE}, ihs)
    /\ \E n \in 0..MaxHashFiles :
         /\ fs = [f \in Folders |-> IF f = "A" THEN FirstFiles(n) ELSE EmptyDir]
         /\ \E hs \in [1..n -> NearDupHashes] :
              props = [c \in BlobsOf(n) |->
                         IF c > 0 THEN Valid(Pred(CatClassLo, cat_threshold), Hash(hs[c]))
                         ELSE Unknown]
    /\ main = FreshMain(SubSeq(CAT_BREEDS, 1, 1), 1)
    /\ budget = [f \in Folders |->
            IF f = "A" THEN [calls |-> 1, faults |-> 0]
            ELSE [calls |-> 0, faults |-> 0]]

\* The near-duplicate specification: hashes from imagehash.phash or from
\* simple_dhash.
InitNearDup == NearDupFolder(BOOLEAN)

SpecNearDup == InitNearDup /\ [][Next]_vars

\* The threshold specification: the same hash sequences, hashed by
\* simple_dhash, on which the pass is replayed at other thresholds.
InitThreshold == NearDupFolder({FALSE})

SpecThreshold == InitThreshold /\ [][Next]_vars

\* The hashing specification: cat pictures some of which are byte-identical,
\* each with a perceptual hash close to the others' or with none, the
\* classifier disabled, the operating system failing reads and refusing
\* deletes.
InitHashing ==
    /\ InitCleaner([jpg_only : BOOLEAN, keep_intermediate : {FALSE},
                    no_near_dup : BOOLEAN, no_is_cat : {TRUE}],
                   {TRUE}, {TRUE}, {FALSE})
    /\ \E n \in 0..MaxFiles :
         /\ \E l \in Labelings(n) :
              fs = [f \in Folders |->
                      IF f = "A" THEN DirOf({GlobOrder[k] : k \in 1..n}, l)
                      ELSE EmptyDir]
         /\ \E hs \in [1..n -> {HashNone, Hash(0), Hash(63)}] :
              props = [c \in BlobsOf(n) |->
                         IF c > 0 THEN Valid(Pred(CatClassLo, cat_threshold), hs[c])
                         ELSE Unknown]
    /\ main = FreshMain(SubSeq(CAT_BREEDS, 1, 1), 1)
    /\ budget = [f \in Folders |->
            IF f = "A" THEN [calls |-> 1, faults |-> MaxFaults]
            ELSE [calls |-> 0, faults |-> 0]]

SpecHashing == InitHashing /\ [][Next]_vars

\* The program specification: main from its loop to its end over the breed
\* list, one iteration at a time.  The first folder holds at most MaxTarget
\* files and the second at most one; every file is a cat picture unless
\* decoding it fails or raises.
InitProgram ==
    /\ InitCleaner([jpg_only : {FALSE}, keep_intermediate : {FALSE},
                    no_near_dup : BOOLEAN, no_is_cat : {FALSE}],
                   {TRUE}, {TRUE}, {FALSE})
    /\ \E n \in 0..MaxTarget, m \in 0..1 :
         fs = [f \in Folders |-> IF f = "A" THEN FirstFiles(n) ELSE FirstFiles(m)]
    /\ props = [c \in BlobsOf(MaxTarget) |->
                  [Valid(Pred(CatClassLo, cat_threshold), Hash(0))
                      EXCEPT !.seen = @ \ {"dec"}]]
    /\ main = FreshMain(CAT_BREEDS, 1)
    /\ budget = [f \in Folders |->
            [calls |-> Cardinality({k \in DOMAIN CAT_BREEDS : BreedDir(Slugs[CAT_BREEDS[k]]) = f}),
             faults |-> 0]]

SpecProgram == InitProgram /\ [][NextMain]_vars

\* The program never stops while a step is left to take.
FairProgram == SpecProgram /\ WF_vars(NextMain)

\* The classifier specification: every way of building the CatFilter, on
\* decodable, large enough pictures of any predicted class.
InitClassifier ==
    /\ InitCleaner([jpg_only : {FALSE}, keep_intermediate : {FALSE},
                    no_near_dup : BOOLEAN, no_is_cat : BOOLEAN],
                   BOOLEAN, BOOLEAN, {FALSE})
    /\ \E n \in 0..MaxFiles :
         /\ fs = [f \in Folders |-> IF f = "A" THEN FirstFiles(n) ELSE EmptyDir]
         /\ \E ps \in [1..n -> Predictions] :
              props = [c \in BlobsOf(n) |->
                         IF c > 0 THEN ValidNoHash(ps[c]) ELSE Unknown]
    /\ main = FreshMain(SubSeq(CAT_BREEDS, 1, 1), 1)
    /\ budget = [f \in Folders |->
            IF f = "A" THEN [calls |-> 1, faults |-> 0]
            ELSE [calls |-> 0, faults |-> 0]]

SpecClassifier == InitClassifier /\ [][Next]_vars

\* The mixed folder of the scenario: ScenarioFiles files of which file b does
\* not decode, file s is too small, and the others are cat pictures with
\* hashes at least 7 bits apart, the second of them a byte-identical copy of
\* the first.  A converted picture classifies and hashes as its original.
ScenarioFiles == 9

ScenarioHashes ==
    <<0, 127, 127 * 128, 127 * 128 * 128, 127 * 128 * 128 * 128, 15 + (15 * 128)>>

ScenarioFolder ==
    \E b, s \in 1..ScenarioFiles :
        /\ b # s
        /\ LET valid == (1..ScenarioFiles) \ {b, s}
               first == CHOOSE k \in valid : \A j \in valid : k <= j
               copy == CHOOSE k \in valid \ {first} : \A j \in valid \ {first} : k <= j
               rank(k) == Cardinality({j \in valid \ {copy} : j <= k})
               blob(k) == IF k = copy THEN first ELSE k
               of(c) == IF c < 0 THEN 0 - c ELSE c
           IN /\ fs = [f \in Folders |->
                        IF f = "A"
                        THEN [p \in AllPaths |->
                                IF \E k \in 1..ScenarioFiles : GlobOrder[k] = p
                                THEN blob(CHOOSE k \in 1..ScenarioFiles : GlobOrder[k] = p)
                                ELSE NoFile]
                        ELSE EmptyDir]
              /\ props = [c \in BlobsOf(ScenarioFiles) |->
                            IF of(c) = b
                            THEN [Valid(ClsError, HashNone) EXCEPT !.dec = "unreadable"]
                            ELSE IF of(c) = s
                            THEN [Valid(ClsError, HashNone) EXCEPT
                                     !.size = <<min_side - 1, min_side>>]
                            ELSE IF of(c) = copy THEN Unknown
                            ELSE Valid(Pred(CatClassLo, cat_threshold),
                                       Hash(ScenarioHashes[rank(of(c))]))]

\* The scenario specification: the mixed folder under every combination of
\* the cleaning options, found complete or after a download that adds nothing.
InitScenario ==
    /\ InitMain(Options,
                [engine : {"auto"}, images_per_breed : {1, ScenarioFiles + 1},
                 min_files_to_skip : {1}, max_total_per_breed : {1}],
                {TRUE}, {TRUE}, {FALSE})
    /\ ScenarioFolder
    /\ main = FreshMain(SubSeq(CAT_BREEDS, 1, 1), 1)
    /\ budget = [f \in Folders |->
            IF f = "A" THEN [calls |-> 1, faults |-> 0]
            ELSE [calls |-> 0, faults |-> 0]]

SpecScenario == InitScenario /\ [][Next]_vars

\* The download specification: every engine, every target and limit up to
\* MaxTarget, a folder of up to MaxTarget valid cat pictures, the cleaning
\* with its default options.
Engines == {"auto", "google", "bing"}

InitDownload ==
    /\ InitMain([jpg_only : {FALSE}, keep_intermediate : {FALSE},
                 no_near_dup : {FALSE}, no_is_cat : {FALSE}],
                [engine : Engines, images_per_breed : 0..MaxTarget,
                 min_files_to_skip : 0..MaxTarget, max_total_per_breed : 0..MaxTarget],
                {TRUE}, {TRUE}, {FALSE})
    /\ \E n \in 0..MaxTarget :
         fs = [f \in Folders |-> IF f = "A" THEN FirstFiles(n) ELSE EmptyDir]
    /\ props = [c \in BlobsOf(MaxTarget) |->
                  Valid(Pred(CatClassLo, cat_threshold), Hash(0))]
    /\ main = FreshMain(SubSeq(CAT_BREEDS, 1, 1), 1)
    /\ budget = [f \in Folders |->
            IF f = "A" THEN [calls |-> 1, faults |-> 0]
            ELSE [calls |-> 0, faults |-> 0]]

SpecDownload == InitDownload /\ [][Next]_vars

\* The two-folder specification: main's loop body run on two breed folders
\* by two workers, the second iteration starting at any time after the first
\* has started and their steps taken in any order.  The first folder is
\* any folder of at most MaxPairFiles files, the second is empty, or holds
\* two different pictures, or two copies of one picture; the same picture
\* may lie in both folders.
PairDirs ==
    {DirOf(S, l) : S \in {T \in SUBSET InitPaths : Cardinality(T) <= MaxPairFiles},
                   l \in Labelings(MaxPairFiles)}

SecondDirs ==
    {EmptyDir,
     [EmptyDir EXCEPT ![<<"a", "jpg">>] = 1, ![<<"b", "png">>] = 2],
     [EmptyDir EXCEPT ![<<"a", "jpg">>] = 1, ![<<"a", "png">>] = 1]}

\* What the libraries report for every picture, original or converted:
\* near-duplicate cats; one cat among undecodable files; one picture that is
\* no cat among pictures that are too small.
PairProps ==
    LET of(c) == IF c < 0 THEN 0 - c ELSE c
        cat(c) == Valid(Pred(CatClassLo, cat_threshold),
                        Hash(IF of(c) % 2 = 1 THEN 0 ELSE 63))
    IN {[c \in BlobsOf(MaxPairFiles) |-> cat(c)],
        [c \in BlobsOf(MaxPairFiles) |->
            IF of(c) = 1 THEN cat(c)
            ELSE [Valid(ClsError, HashNone) EXCEPT !.dec = "unreadable"]],
        [c \in BlobsOf(MaxPairFiles) |->
            IF of(c) = 1 THEN Valid(Pred(CatClassHi + 1, cat_threshold + 1), Hash(0))
            ELSE [Valid(ClsError, HashNone) EXCEPT !.size = <<min_side - 1, min_side>>]]}

InitFolders ==
    /\ InitCleaner([jpg_only : BOOLEAN, keep_intermediate : {FALSE},
                    no_near_dup : BOOLEAN, no_is_cat : {FALSE}],
                   {TRUE}, {TRUE}, {FALSE})
    /\ \E da \in PairDirs, db \in SecondDirs :
         fs = [f \in Folders |-> IF f = "A" THEN da ELSE db]
    /\ props \in PairProps
    /\ main = FreshMain(SubSeq(CAT_BREEDS, 1, 2), 2)
    /\ budget = [f \in Folders |-> [calls |-> 1, faults |-> 0]]

SpecFolders == InitFolders /\ [][Next]_vars

-----------------------------------------------------------------------------
(* Properties *)

Removed(st) ==
    st.removed_small + st.removed_broken + st.removed_notcat
        + st.removed_dup_md5 + st.removed_dup_phash

Accounting(st) == st.before = st.after + Removed(st)

NonNegative(st) == \A k \in DOMAIN st : st[k] >= 0

Srcs(list) == {list[k].src : k \in DOMAIN list}

Returned(f) == run[f].pc = "done"

\* C1: when no os.remove fails, the statistics a call returns satisfy
\* before = after + the five removed_* counters, all seven fields >= 0,
\* for every folder and every combination of the flags.
C1_Accounting ==
    \A f \in Folders :
        (Returned(f) /\ ~run[f].remove_failed)
            => (Accounting(run[f].stats) /\ NonNegative(run[f].stats))

\* a call that returned, no delete refused, with a removal in every stage and
\* under every counter, and a file kept
C1_EveryStageRemoves ==
    \E f \in Folders :
        /\ Returned(f) /\ ~run[f].remove_failed
        /\ run[f].stats.removed_small > 0 /\ run[f].stats.removed_broken > 0
        /\ run[f].stats.removed_notcat > 0 /\ run[f].stats.removed_dup_md5 > 0
        /\ run[f].stats.removed_dup_phash > 0 /\ run[f].stats.after > 0

\* C2: also when the delete of a rejected file is refused, the statistics a
\* call returns satisfy the accounting equation.
C2_AccountingWhenDeleteFails ==
    \A f \in Folders :
        (Returned(f) /\ run[f].remove_failed) => Accounting(run[f].stats)

\* C3: on return, every scanned file is either in the final kept list and
\* under no counter, or under exactly one counter and not in the kept list.
C3_ExactlyOneOutcome ==
    \A f \in Folders :
        Returned(f) =>
            \A k \in 1..run[f].stats.before :
                IF k \in Srcs(run[f].final_paths)
                THEN run[f].tally[k] = {}
                ELSE Cardinality(run[f].tally[k]) = 1

\* C4: no failure of a per-file operation leaves clean_breed_folder as an
\* exception: the call never ends by raising.
C4_NothingPropagates == \A f \in Folders : run[f].pc # "raised"

Stage3Ended(f) ==
    \/ run[f].pc = "stage4" /\ run[f].i = 1
    \/ run[f].pc = "done" /\ ~NearDupStageRuns

\* C5: when stage 3 has ended (no delete refused), of the files whose digest
\* stage 3 computed, per digest exactly the first in scan order survives: it
\* is in md5_filtered and on disk with that digest; every later one is
\* counted as removed_dup_md5, is not in md5_filtered and is gone.
C5_FirstOfEachDigestSurvives ==
    \A f \in Folders :
        (Stage3Ended(f) /\ locked[f] = {}) =>
            LET L == run[f].md5_log
                First(h) == CHOOSE k \in DOMAIN L :
                               L[k].h = h /\ \A j \in 1..(k - 1) : L[j].h # h
            IN \A k \in DOMAIN L :
                 L[k].h # NoFile =>
                    IF k = First(L[k].h)
                    THEN /\ L[k].src \in Srcs(run[f].md5_filtered)
                         /\ fs[f][L[k].p] = L[k].h
                    ELSE /\ L[k].src \notin Srcs(run[f].md5_filtered)
                         /\ "removed_dup_md5" \in run[f].tally[L[k].src]
                         /\ (L[k].p # L[First(L[k].h)].p => ~exists(fs[f], L[k].p))

\* C6: at every point, any two entries of seen_hashes are more than 6 bits
\* apart.
C6_AcceptedFarApart ==
    \A f \in Folders :
        \A j, k \in DOMAIN run[f].seen_hashes :
            j # k => hamming_distance(run[f].seen_hashes[j].h, run[f].seen_hashes[k].h) > 6

\* the pass has accepted two hashes exactly 7 bits apart and removed a file
C6_TwoAcceptedOneRemoved ==
    \E f \in Folders :
        /\ Returned(f)
        /\ run[f].stats.removed_dup_phash > 0
        /\ \E j, k \in DOMAIN run[f].seen_hashes :
              hamming_distance(run[f].seen_hashes[j].h, run[f].seen_hashes[k].h) = 7

AcceptedLog(L) == SelectSeq(L, LAMBDA x : ~x.dup)

\* C7: a file whose hash stage 4 computed is removed and counted as
\* removed_dup_phash exactly when its hash is within 6 bits of the hash of a
\* file accepted earlier in the pass; otherwise it is kept and its hash is
\* appended to seen_hashes.  Hashes of removed files are never in seen_hashes.
C7_GreedyFirstWins ==
    \A f \in Folders :
        LET L == run[f].ph_log
            A == AcceptedLog(L)
        IN /\ \A k \in DOMAIN L :
                L[k].dup <=> \E j \in 1..(k - 1) :
                                ~L[j].dup /\ hamming_distance(L[j].h, L[k].h) <= 6
           /\ run[f].seen_hashes = [k \in DOMAIN A |-> [p |-> A[k].p, h |-> A[k].h]]
           /\ \A k \in DOMAIN L :
                IF L[k].dup
                THEN /\ run[f].tally[L[k].src] = {"removed_dup_phash"}
                     /\ L[k].src \notin Srcs(run[f].final_paths)
                     /\ ~exists(fs[f], L[k].p)
                ELSE /\ run[f].tally[L[k].src] = {}
                     /\ L[k].src \in Srcs(run[f].final_paths)
                     /\ exists(fs[f], L[k].p)
           /\ run[f].stats.removed_dup_phash = Len(L) - Len(A)

\* a file 6 bits from the first one removed, then a file 7 bits from the
\* first one (and 1 bit from the removed one) kept, then a file 8 bits from
\* the first one kept
C7_SixRemovesSevenKeeps ==
    \E f \in Folders :
        LET L == run[f].ph_log
        IN /\ Returned(f) /\ Len(L) = 4
           /\ ~L[1].dup /\ L[2].dup /\ ~L[3].dup /\ ~L[4].dup
           /\ hamming_distance(L[1].h, L[2].h) = 6
           /\ hamming_distance(L[1].h, L[3].h) = 7
           /\ hamming_distance(L[2].h, L[3].h) <= 6
           /\ hamming_distance(L[1].h, L[4].h) = 8

Thresholds == 0..(2 * NearDupThreshold)

LogHashes(L) == [k \in DOMAIN L |-> L[k].h]

\* C8 as stated: for the hashes of a pass and thresholds t1 <= t2, the stage
\* removes no more files at t1 than at t2.
C8_Monotone ==
    \A f \in Folders :
        Returned(f) =>
            \A rem \in {[t \in Thresholds |-> NearDupRemoved(LogHashes(run[f].ph_log), t)]} :
                \A t1, t2 \in Thresholds : t1 <= t2 => rem[t1] <= rem[t2]

\* C8 amended: the stage removes no more files at t1 than at t2 whenever
\* 2 * t1 <= t2; at the threshold 6 of the code the count is the one the call
\* returns.
C8_MonotoneWhenDoubled ==
    \A f \in Folders :
        Returned(f) =>
            \A rem \in {[t \in Thresholds |-> NearDupRemoved(LogHashes(run[f].ph_log), t)]} :
                /\ run[f].stats.removed_dup_phash = rem[NearDupThreshold]
                /\ \A t1, t2 \in Thresholds : 2 * t1 <= t2 => rem[t1] <= rem[t2]

\* a pass whose hashes lose more files at 5 than at 6, and fewer at 3 than at 6
C8_FewerAtHalf ==
    \E f \in Folders :
        /\ Returned(f)
        /\ LET hs == LogHashes(run[f].ph_log)
           IN /\ NearDupRemoved(hs, 5) > NearDupRemoved(hs, 6)
              /\ NearDupRemoved(hs, 3) < NearDupRemoved(hs, 6)

Canonical(p) == splitext_ext(p) \in {"jpg", "jpeg"}

HasOtherSibling(dir, p) ==
    \E q \in AllPaths :
        splitext_base(q) = splitext_base(p) /\ ~Canonical(q) /\ exists(dir, q)

\* C9: a second call with the same options, on the folder a first call left
\* when it returned (nothing downloaded in between), removes nothing, converts nothing and leaves every
\* canonical file without a non-canonical sibling as it was.
C9_SecondCallChangesNothing ==
    \A f \in Folders :
        (Returned(f) /\ run[f].hist = <<"done">> /\ breed[f].downloaded = 0) =>
            /\ Removed(run[f].stats) = 0
            /\ run[f].stats.after = run[f].stats.before
            /\ run[f].nconv = 0
            /\ \A p \in AllPaths :
                 (Canonical(p) /\ exists(run[f].dir0, p)
                      /\ ~HasOtherSibling(run[f].dir0, p))
                    => fs[f][p] = run[f].dir0[p]

Permissive == args.no_is_cat \/ ~mods.TF_OK \/ ~mods.weights_ok

CatPrediction(pr) ==
    pr.ok /\ pr.top \in 281..285 /\ pr.prob >= cat_threshold

\* C10: with the classifier disabled by option, TensorFlow missing or the
\* model not loaded, is_cat accepts every file: stage 2 passes each file on,
\* deletes none, and removed_notcat stays 0.
C10_PermissiveKeepsAll ==
    Permissive =>
        \A f \in Folders :
            /\ run[f].stats.removed_notcat = 0
            /\ run[f].pc = "stage2" =>
                  /\ run[f].filtered_paths = SubSeq(run[f].kept_paths, 1, run[f].i - 1)
                  /\ \A k \in DOMAIN run[f].kept_paths :
                        exists(fs[f], run[f].kept_paths[k].p)
            /\ run[f].pc \in {"stage3", "stage4", "done"} =>
                  run[f].filtered_paths = run[f].kept_paths

\* the model failed to load, and a file the network would not call a cat is
\* in the returned kept list and on disk
C10_NonCatKept ==
    \E f \in Folders :
        /\ ~args.no_is_cat /\ mods.TF_OK /\ ~mods.weights_ok
        /\ Returned(f)
        /\ \E k \in DOMAIN run[f].final_paths :
              LET p == run[f].final_paths[k].p
              IN exists(fs[f], p) /\ ~CatPrediction(props[fs[f][p]].cls)

StageOf(pc) ==
    IF pc = "stage1" THEN 1 ELSE IF pc = "stage2" THEN 2
    ELSE IF pc = "stage3" THEN 3 ELSE 4

\* the stages ran one after the other, each over the files the stage before
\* it kept
StagesInOrder(f) ==
    LET L == run[f].ops
    IN /\ \A j, k \in DOMAIN L : j < k => L[j].stage <= L[k].stage
       /\ \A k \in DOMAIN L :
             /\ run[f].pc \in {"stage1", "stage2", "stage3", "stage4"}
                    => L[k].stage <= StageOf(run[f].pc)
             /\ L[k].stage > 1 =>
                    \E j \in 1..(k - 1) :
                        L[j].src = L[k].src /\ L[j].stage = L[k].stage - 1 /\ ~L[j].removed

\* C11: in a call the stages run in the order 1, 2, 3, 4, each over all its
\* files before the next begins and over the files the stage before it kept,
\* and no stage examines a file that an earlier stage removed (a path a
\* stage removed is examined by a later stage only if a conversion wrote a
\* new file there in between).
C11_StageOrder ==
    \A f \in Folders :
        /\ StagesInOrder(f)
        /\ \A j, k \in DOMAIN run[f].ops :
              (/\ run[f].ops[j].removed
               /\ run[f].ops[j].stage < run[f].ops[k].stage
               /\ run[f].ops[k].p = run[f].ops[j].p)
                 => \E m \in (j + 1)..(k - 1) : run[f].ops[j].p \in run[f].ops[m].wrote

\* C12: cleaning the mixed folder (9 files: one undecodable, one too small,
\* seven valid cat pictures of six distinct contents, hashes more than 6
\* bits apart) returns before=9, removed_broken=1, removed_small=1,
\* removed_dup_md5=1, removed_notcat=0, removed_dup_phash=0, after=6.
C12_MixedFolderStats ==
    \A f \in Folders :
        (Returned(f) /\ run[f].stats.before = ScenarioFiles) =>
            run[f].stats = [before |-> 9, removed_small |-> 1, removed_broken |-> 1,
                            removed_notcat |-> 0, removed_dup_md5 |-> 1,
                            removed_dup_phash |-> 0, after |-> 6]

\* The number of image files of a folder: what list_images finds.
FileCount(dir) == Len(list_images(dir))

\* C13 as stated: when clean_breed_folder returns, the folder holds no more
\* image files than on entry, for any folder and any configuration.
C13_NoMoreFiles ==
    \A f \in Folders :
        Returned(f) => FileCount(fs[f]) <= FileCount(run[f].dir0)

\* C13 amended: on return the folder holds at most as many image files as on
\* entry plus one per conversion, and no more than on entry when jpg_only is
\* unset, or when keep_intermediate is unset and no os.remove was refused.
C13_NoMoreFilesUnlessOriginalsKept ==
    \A f \in Folders :
        Returned(f) =>
            /\ FileCount(fs[f]) <= FileCount(run[f].dir0) + run[f].nconv
            /\ (~args.jpg_only \/ (~args.keep_intermediate /\ ~run[f].remove_failed))
                   => FileCount(fs[f]) <= FileCount(run[f].dir0)

\* C13 witness: a returned call that converted a file, deleted its original
\* and left fewer files than it found.
C13_ConvertedAndFewer ==
    \E f \in Folders :
        /\ Returned(f)
        /\ args.jpg_only /\ ~args.keep_intermediate /\ ~run[f].remove_failed
        /\ run[f].nconv >= 1
        /\ FileCount(run[f].dir0) >= 2
        /\ FileCount(fs[f]) < FileCount(run[f].dir0)

\* C16: with near-duplicate removal disabled, stage 4 examines, hashes and
\* deletes no file: the call never enters the stage-4 loop, no file is
\* examined by it, no hash is computed or indexed, removed_dup_phash is 0,
\* and on return the final kept list is the list of stage-3 survivors, in the
\* same order, and after is its length.
C16_NearDupDisabled ==
    \A f \in Folders :
        args.no_near_dup =>
            /\ run[f].pc # "stage4"
            /\ \A k \in DOMAIN run[f].ops : run[f].ops[k].stage # 4
            /\ run[f].ph_log = <<>>
            /\ run[f].seen_hashes = <<>>
            /\ run[f].stats.removed_dup_phash = 0
            /\ Returned(f) =>
                  /\ run[f].final_paths = run[f].md5_filtered
                  /\ run[f].stats.after = Len(run[f].md5_filtered)

\* C16 witness: a call with near-duplicate removal disabled has returned
\* keeping two pictures whose hashes are within the threshold.
C16_NearDuplicatesBothKept ==
    \E f \in Folders :
        /\ Returned(f)
        /\ args.no_near_dup
        /\ \E i, j \in DOMAIN run[f].final_paths :
              /\ i < j
              /\ LET ci == fs[f][run[f].final_paths[i].p]
                     cj == fs[f][run[f].final_paths[j].p]
                 IN /\ ci # NoFile /\ cj # NoFile /\ ci # cj
                    /\ "ph" \in props[ci].seen /\ "ph" \in props[cj].seen
                    /\ props[ci].ph.ok /\ props[cj].ph.ok
                    /\ hamming_distance(props[ci].ph.h, props[cj].ph.h) <= NearDupThreshold

\* What the libraries answered for the file stage 1 examined in step o of
\* folder f: the content the scan found at its path.
Stage1Blob(f, o) == run[f].dir0[o.p]

\* C20: stage 1 deletes a file Pillow cannot decode and tallies it as
\* removed_broken; it deletes a file Pillow decodes whose probed size is
\* (0,0) or whose shorter side is below min_side and tallies it as
\* removed_small and not as broken; a file whose shorter side equals
\* min_side is not removed as too small.
C20_Stage1Classification ==
    \A f \in Folders :
        \A k \in DOMAIN run[f].ops :
            LET o == run[f].ops[k]
                c == Stage1Blob(f, o)
            IN (o.stage = 1 /\ c # NoFile /\ "dec" \in props[c].seen) =>
                  /\ props[c].dec = "unreadable" =>
                        /\ o.removed /\ o.gone
                        /\ run[f].tally[o.src] = {"removed_broken"}
                  /\ (props[c].dec = "ok" /\ "size" \in props[c].seen) =>
                        LET w == props[c].size[1]
                            h == props[c].size[2]
                        IN /\ TooSmall(w, h) =>
                                /\ o.removed /\ o.gone
                                /\ run[f].tally[o.src] = {"removed_small"}
                           /\ (w # 0 /\ h # 0 /\ Min(w, h) = min_side) =>
                                "removed_small" \notin run[f].tally[o.src]

Tried(f, engine) ==
    {k \in DOMAIN breed[f].attempts : breed[f].attempts[k].engine = engine}

Crawling(f) == run[f].pc \in {"google", "bing"}

\* C17: in crawl_breed, with engine auto Google is attempted first and Bing
\* is attempted if and only if the Google attempt failed; with engine google
\* Bing is never attempted; with engine bing Google is never attempted; each
\* engine is attempted at most once; when every attempt made has failed the
\* error is logged and the iteration goes on to the cleaning.
C17_EngineFallback ==
    \A f \in Folders :
        LET a == breed[f].attempts
        IN /\ Cardinality(Tried(f, "google")) <= 1
           /\ Cardinality(Tried(f, "bing")) <= 1
           /\ args.engine = "auto" =>
                 /\ run[f].pc = "bing" => a # <<>>
                 /\ a # <<>> => a[1].engine = "google"
                 /\ Tried(f, "bing") # {} => ~a[1].ok
                 /\ (a # <<>> /\ ~a[1].ok) => (run[f].pc = "bing" \/ Tried(f, "bing") # {})
                 /\ (a # <<>> /\ a[1].ok) => run[f].pc # "bing"
           /\ args.engine = "google" => (Tried(f, "bing") = {} /\ run[f].pc # "bing")
           /\ args.engine = "bing" => (Tried(f, "google") = {} /\ run[f].pc # "google")
           /\ (a # <<>> /\ ~Crawling(f)) =>
                 /\ breed[f].error_logged = (\A k \in DOMAIN a : ~a[k].ok)
                 /\ run[f].pc # "raised"

\* C17 witness: with engine auto Google was attempted and failed, then Bing
\* was attempted and failed, the error was logged and the cleaning of the
\* folder has run to its end.
C17_BothEnginesFailed ==
    \E f \in Folders :
        /\ args.engine = "auto"
        /\ breed[f].attempts = <<[engine |-> "google", ok |-> FALSE],
                                 [engine |-> "bing", ok |-> FALSE]>>
        /\ breed[f].error_logged
        /\ Returned(f)

\* C18: for a breed whose folder holds at least images-per-breed image files
\* when its iteration starts, no crawler is invoked and nothing is
\* downloaded, and the iteration goes to the cleaning pass of that folder.
C18_CompleteFolderNotCrawled ==
    \A f \in Folders :
        (run[f].pc # "idle" /\ breed[f].existing >= args.images_per_breed) =>
            /\ breed[f].attempts = <<>>
            /\ breed[f].downloaded = 0
            /\ run[f].pc \in {"clean", "stage1", "stage2", "stage3", "stage4", "done"}
            /\ run[f].pc # "clean" => run[f].stats.before = breed[f].existing

\* C18 witness: a folder that held images-per-breed files or more, at least
\* one, was cleaned to the end without any crawler attempt.
C18_CompleteFolderCleaned ==
    \E f \in Folders :
        /\ Returned(f)
        /\ args.images_per_breed >= 1
        /\ breed[f].existing >= args.images_per_breed
        /\ breed[f].attempts = <<>>
        /\ run[f].stats.before = breed[f].existing

\* C19: if the breed folder holds at least min-files-to-skip image files when
\* its iteration starts, the download is skipped, also when that number is
\* smaller than images-per-breed.
C19_MinFilesToSkip ==
    \A f \in Folders :
        (run[f].pc # "idle" /\ breed[f].existing >= args.min_files_to_skip) =>
            /\ breed[f].attempts = <<>>
            /\ ~Crawling(f)

\* One step of a pass run alone on the local state s, the libraries answering
\* as props says and the operating system refusing nothing.
SoloStep(s) ==
    LET r == s.r
    IN IF r.i > Len(LoopList(r)) THEN [s EXCEPT !.r = AfterLoop(r)]
       ELSE LET e == LoopList(r)[r.i]
                c == s.dir[e.p]
            IN IF r.pc = "stage1"
               THEN LET d == CHOOSE x \in DecodeOf(c) : TRUE
                        sz == IF d = "ok" THEN CHOOSE x \in SizeOf(c) : TRUE ELSE <<0, 0>>
                        converts == /\ d = "ok"
                                    /\ ~TooSmall(sz[1], sz[2])
                                    /\ Converts(s.dir, e.p)
                        cv == IF converts THEN CHOOSE x \in ConvOf(c) : TRUE ELSE FALSE
                    IN Stage1File(s, e, d, sz, cv, TRUE)
               ELSE IF r.pc = "stage2"
               THEN LET pr == IF ClassifierActive /\ c # NoFile
                              THEN CHOOSE x \in ClsOf(c) : TRUE ELSE ClsError
                    IN Stage2File(s, e, pr, TRUE)
               ELSE IF r.pc = "stage3" THEN Stage3File(s, e, FALSE, TRUE)
               ELSE LET hr == IF c = NoFile THEN HashNone ELSE CHOOSE x \in HashOf(c) : TRUE
                    IN Stage4File(s, e, hr, TRUE)

RECURSIVE SoloRun(_)
SoloRun(s) == IF s.r.pc \in {"done", "raised"} THEN s ELSE SoloRun(SoloStep(s))

\* clean_breed_folder run from its first line to its return on the folder
\* dir, nothing else running.
CleanAlone(dir) ==
    LET paths == list_images(dir)
    IN SoloRun([dir |-> dir, locked |-> {},
                r |-> [FreshRun EXCEPT
                          !.pc = "stage1",
                          !.paths = [k \in 1..Len(paths) |-> [p |-> paths[k], src |-> k]],
                          !.stats.before = Len(paths),
                          !.tally = [k \in 1..Len(paths) |-> {}],
                          !.dir0 = dir]])

\* The pass on f has returned what it returns when run alone on the folder it
\* found, and has left the same files.
SameAsAlone(f) ==
    \A alone \in {CleanAlone(run[f].dir0)} :
        /\ run[f].stats = alone.r.stats
        /\ run[f].final_paths = alone.r.final_paths
        /\ fs[f] = alone.dir

InPass(r) == r.pc \in {"clean", "stage1", "stage2", "stage3", "stage4"}

\* A step of the pass on f leaves every other folder's files as they are.
OwnFilesOnly ==
    \A f \in Folders :
        (InPass(run[f]) /\ run'[f] # run[f]) =>
            \A g \in Folders \ {f} : fs'[g] = fs[g]

\* The digest map and the hash index are empty when the pass starts, a file
\* is removed as an exact duplicate only of a file of its own folder met
\* earlier in the same pass, and the hash index holds hashes of this pass
\* only.
FreshPerCall(f) ==
    /\ (run[f].pc = "stage1" /\ run[f].i = 1) =>
            (DOMAIN run[f].seen_md5 = {} /\ run[f].seen_hashes = <<>>)
    /\ (run[f].pc = "stage4" /\ run[f].i = 1) => run[f].seen_hashes = <<>>
    /\ \A k \in DOMAIN run[f].md5_log :
          LET m == run[f].md5_log[k]
          IN ("removed_dup_md5" \in run[f].tally[m.src]) =>
                \E j \in 1..(k - 1) : run[f].md5_log[j].h = m.h
    /\ Len(run[f].seen_hashes) <= Len(run[f].ph_log)

\* C14: a call of clean_breed_folder on a folder changes files of that folder
\* only; the digest map and the hash index start empty for every call, so a
\* file is never removed as the duplicate of a file of another folder; and
\* the statistics and the surviving files of a folder are those of a pass
\* run alone on it, whether or not another folder was cleaned before or
\* meanwhile.
C14_FolderIndependence ==
    /\ [][OwnFilesOnly]_vars
    /\ [](\A f \in Folders : FreshPerCall(f) /\ (Returned(f) => SameAsAlone(f)))

\* C14 witness: both folders have been cleaned one after the other, and a
\* picture that lies in both is kept in both.
C14_SharedPictureKeptTwice ==
    /\ \A f \in Folders : Returned(f) /\ ~run[f].overlap
    /\ \E i \in DOMAIN run["A"].final_paths, j \in DOMAIN run["B"].final_paths :
          /\ fs["A"][run["A"].final_paths[i].p] # NoFile
          /\ fs["A"][run["A"].final_paths[i].p] = fs["B"][run["B"].final_paths[j].p]
    /\ \E f \in Folders : run[f].stats.removed_dup_md5 >= 1

\* C15: for any interleaving of the per-file steps of two passes on two
\* different folders, when both have returned each has the statistics, the
\* kept list and the files of the same pass run without the other.
C15_InterleavingEquivalent ==
    (\A f \in Folders : Returned(f)) => (\A f \in Folders : SameAsAlone(f))

\* C15 witness: two passes whose loops ran interleaved have both returned,
\* each having removed a file.
C15_InterleavedBothRemoved ==
    \A f \in Folders :
        /\ Returned(f)
        /\ run[f].overlap
        /\ run[f].stats.after < run[f].stats.before

\* The steps of stage `stage` in the history of the pass on f.
StageOps(f, stage) == {k \in DOMAIN run[f].ops : run[f].ops[k].stage = stage}

\* C21: with an enabled and loaded classifier, stage 2 keeps a file if and
\* only if its top predicted class is in 281..285 and its confidence is at
\* least the threshold; every file it rejects is deleted and tallied as
\* removed_notcat and under no other counter.
C21_ClassifierDecision ==
    \A f \in Folders :
        ClassifierActive =>
            \A k \in StageOps(f, 2) :
                LET o == run[f].ops[k]
                    c == run[f].dir0[o.p]
                IN (c # NoFile /\ "cls" \in props[c].seen) =>
                      /\ ~o.removed <=>
                            /\ props[c].cls.ok
                            /\ props[c].cls.top \in CatClassLo..CatClassHi
                            /\ props[c].cls.prob >= cat_filter.threshold
                      /\ o.removed =>
                            (o.gone /\ run[f].tally[o.src] = {"removed_notcat"})

\* C21 witness: an enabled classifier has kept a cat of class 281 with
\* confidence equal to the threshold and rejected a picture of class 286.
C21_ThresholdKeptNeighbourRejected ==
    \E f \in Folders :
        /\ Returned(f)
        /\ ClassifierActive
        /\ \E i, j \in StageOps(f, 2) :
              LET ci == run[f].dir0[run[f].ops[i].p]
                  cj == run[f].dir0[run[f].ops[j].p]
              IN /\ ci # NoFile /\ cj # NoFile
                 /\ props[ci].cls = Pred(CatClassLo, cat_threshold)
                 /\ ~run[f].ops[i].removed
                 /\ props[cj].cls = Pred(CatClassHi + 1, cat_threshold + 1)
                 /\ run[f].ops[j].removed

\* C26: with an enabled classifier, a file on which the classification
\* itself fails (Image.open or the inference raises) is rejected by is_cat:
\* stage 2 deletes it and tallies it as removed_notcat, never as
\* removed_broken.
C26_ClassificationFailureIsNotCat ==
    \A f \in Folders :
        ClassifierActive =>
            \A k \in StageOps(f, 2) :
                LET o == run[f].ops[k]
                    c == run[f].dir0[o.p]
                IN (c # NoFile /\ "cls" \in props[c].seen /\ props[c].cls = ClsError) =>
                      /\ o.removed /\ o.gone
                      /\ "removed_notcat" \in run[f].tally[o.src]
                      /\ "removed_broken" \notin run[f].tally[o.src]
                      /\ \A j \in StageOps(f, 3) \cup StageOps(f, 4) :
                            run[f].ops[j].src # o.src

\* C26 witness: a pass with an enabled classifier has returned after a
\* classification failed; the file is gone and counted as not a cat, and
\* nothing is counted as broken.
C26_FailedClassificationRemoved ==
    \E f \in Folders :
        /\ Returned(f)
        /\ ClassifierActive
        /\ \E k \in StageOps(f, 2) :
              /\ run[f].dir0[run[f].ops[k].p] # NoFile
              /\ props[run[f].dir0[run[f].ops[k].p]].cls = ClsError
              /\ "cls" \in props[run[f].dir0[run[f].ops[k].p]].seen
              /\ ~exists(fs[f], run[f].ops[k].p)
        /\ run[f].stats.removed_notcat >= 1
        /\ run[f].stats.removed_broken = 0

\* C25: a conversion never overwrites another scanned input file: the path
\* it writes is not the path of a different file of the same scan, nor a
\* path that the conversion of another file has written, so every kept file
\* holds the content of exactly one input file.
C25_ConversionOverwritesNoInput ==
    \A f \in Folders :
        \A k \in StageOps(f, 1) :
            LET o == run[f].ops[k]
            IN \A q \in o.wrote :
                  /\ q # o.p => ~exists(run[f].dir0, q)
                  /\ \A j \in 1..(k - 1) : q \notin run[f].ops[j].wrote

\* C24: when clean_breed_folder returns, every path of its final kept list,
\* the paths counted in after, exists on disk, for any folder and any
\* configuration.
C24_KeptFilesExist ==
    \A f \in Folders :
        Returned(f) =>
            \A k \in DOMAIN run[f].final_paths :
                exists(fs[f], run[f].final_paths[k].p)

\* The file stage 1 examined in step o of the pass on f decoded and was
\* large enough: it reached the conversion at line 417.
PassedSize(f, o) ==
    LET c == Stage1Blob(f, o)
    IN /\ c # NoFile
       /\ "dec" \in props[c].seen /\ props[c].dec = "ok"
       /\ "size" \in props[c].seen /\ ~TooSmall(props[c].size[1], props[c].size[2])

Carried(f, o, p) ==
    \E k \in DOMAIN run[f].kept_paths :
        run[f].kept_paths[k] = [p |-> p, src |-> o.src]

\* C22: with jpg_only on, after a successful conversion the converted .jpg
\* is the path carried to the later stages and the original is deleted if
\* and only if keep_intermediate is false; after a failed conversion the
\* original is deleted, tallied as removed_broken and carried no further; a
\* file already named .jpg is never converted.
C22_Conversion ==
    \A f \in Folders :
        args.jpg_only =>
            \A k \in StageOps(f, 1) :
                LET o == run[f].ops[k]
                    c == Stage1Blob(f, o)
                    ext == splitext_ext(o.p)
                IN /\ ext = "jpg" =>
                        /\ o.wrote = {}
                        /\ PassedSize(f, o) => (~o.removed /\ ~o.gone /\ Carried(f, o, o.p))
                   /\ o.wrote # {} =>
                        /\ o.wrote = {JpgPath(o.p)}
                        /\ ~o.removed /\ Carried(f, o, JpgPath(o.p))
                        /\ o.gone <=> ~args.keep_intermediate
                   /\ (PassedSize(f, o) /\ ext \notin {"jpg", "jpeg"}
                         /\ "conv" \in props[c].seen) =>
                        IF props[c].conv
                        THEN o.wrote = {JpgPath(o.p)}
                        ELSE /\ o.wrote = {}
                             /\ o.removed /\ o.gone
                             /\ run[f].tally[o.src] = {"removed_broken"}
                             /\ \A j \in DOMAIN run[f].ops :
                                   run[f].ops[j].src = o.src => j = k

\* C22 witness: a pass with jpg_only has returned after one conversion
\* succeeded, its original deleted, and another failed, its original deleted
\* and counted as broken.
C22_OneConvertedOneFailed ==
    \E f \in Folders :
        /\ Returned(f)
        /\ args.jpg_only /\ ~args.keep_intermediate
        /\ \E i, j \in StageOps(f, 1) :
              /\ run[f].ops[i].wrote # {} /\ run[f].ops[i].gone
              /\ PassedSize(f, run[f].ops[j])
              /\ "conv" \in props[Stage1Blob(f, run[f].ops[j])].seen
              /\ ~props[Stage1Blob(f, run[f].ops[j])].conv
              /\ run[f].ops[j].removed
        /\ run[f].stats.removed_broken >= 1

\* C27: with jpg_only false the pass creates and modifies no file: at every
\* step each file of the folder is a file found on entry with its content
\* unchanged, no conversion is attempted (so keep_intermediate, read only
\* after a successful conversion at line 423, is never read), a file that
\* decodes and is large enough passes stage 1 under its own path, and on
\* return every kept file exists under its scanned path with its original
\* content.
C27_NoConversionNoWrite ==
    \A f \in Folders :
        (~args.jpg_only /\ run[f].pc \in {"stage1", "stage2", "stage3", "stage4", "done"}) =>
            /\ \A p \in AllPaths : exists(fs[f], p) => fs[f][p] = run[f].dir0[p]
            /\ run[f].nconv = 0
            /\ \A k \in DOMAIN run[f].ops : run[f].ops[k].wrote = {}
            /\ \A k \in StageOps(f, 1) :
                  PassedSize(f, run[f].ops[k]) =>
                      (~run[f].ops[k].removed /\ Carried(f, run[f].ops[k], run[f].ops[k].p))
            /\ Returned(f) =>
                  \A k \in DOMAIN run[f].final_paths :
                      LET e == run[f].final_paths[k]
                      IN /\ e.p = run[f].paths[e.src].p
                         /\ exists(fs[f], e.p)
                         /\ fs[f][e.p] = run[f].dir0[e.p]

\* C27 witness: a pass with jpg_only false and keep_intermediate true has
\* returned keeping a .png file as it was and having removed another file.
C27_PngKeptAsIs ==
    \E f \in Folders :
        /\ Returned(f)
        /\ ~args.jpg_only /\ args.keep_intermediate
        /\ \E k \in DOMAIN run[f].final_paths :
              /\ splitext_ext(run[f].final_paths[k].p) = "png"
              /\ exists(fs[f], run[f].final_paths[k].p)
        /\ run[f].stats.after < run[f].stats.before

\* os.remove was called on the path of step o: the file is gone, or the
\* remove was refused.
RemoveTried(f, o) == o.gone \/ o.p \in locked[f]

\* C23: stage 3 removes as exact duplicate exactly the files whose digest
\* was computed and equals the digest of a file met earlier in the pass, so
\* files with different digests all survive stage 3; a file whose digest
\* (stage 3) or perceptual hash (stage 4) cannot be computed is removed and
\* tallied as removed_broken, enters neither the digest map nor the hash
\* index, and the decision on every file depends only on the digests and
\* hashes that were computed before it.
C23_HashFailureIsCorruption ==
    \A f \in Folders :
        LET L == run[f].md5_log
            P == run[f].ph_log
        IN /\ \A k \in DOMAIN L :
                 LET seen == \E j \in 1..(k - 1) : L[j].h # NoFile /\ L[j].h = L[k].h
                 IN /\ ("removed_dup_md5" \in run[f].tally[L[k].src])
                          <=> (L[k].h # NoFile /\ seen)
                    /\ (L[k].h # NoFile /\ ~seen) =>
                          L[k].src \in Srcs(run[f].md5_filtered)
                    /\ L[k].h = NoFile =>
                          /\ "removed_broken" \in run[f].tally[L[k].src]
                          /\ L[k].src \notin Srcs(run[f].md5_filtered)
           /\ DOMAIN run[f].seen_md5 = {L[k].h : k \in DOMAIN L} \ {NoFile}
           /\ \A k \in StageOps(f, 3) \cup StageOps(f, 4) :
                 run[f].ops[k].removed => RemoveTried(f, run[f].ops[k])
           /\ \A k \in StageOps(f, 4) :
                 LET o == run[f].ops[k]
                 IN (\A j \in DOMAIN P : P[j].src # o.src) =>
                       /\ o.removed
                       /\ "removed_broken" \in run[f].tally[o.src]
                       /\ o.src \notin Srcs(run[f].final_paths)
           /\ \A k \in DOMAIN P :
                 P[k].dup <=> \E j \in 1..(k - 1) :
                                 /\ ~P[j].dup
                                 /\ hamming_distance(P[j].h, P[k].h) <= NearDupThreshold
           /\ Len(run[f].seen_hashes) = Cardinality({k \in DOMAIN P : ~P[k].dup})
           /\ \A i \in DOMAIN run[f].seen_hashes :
                 \E k \in DOMAIN P : /\ ~P[k].dup
                                     /\ run[f].seen_hashes[i] = [p |-> P[k].p, h |-> P[k].h]

\* C23 witness: a pass has returned in which a digest could not be computed
\* for a file that was on disk, and two files with different digests whose
\* perceptual hashes are within the threshold both survived stage 3.
C23_FailedDigestAndReencodedPair ==
    \E f \in Folders :
        /\ Returned(f)
        /\ \E k \in DOMAIN run[f].md5_log :
              /\ run[f].md5_log[k].h = NoFile
              /\ exists(run[f].dir0, run[f].md5_log[k].p)
              /\ "removed_broken" \in run[f].tally[run[f].md5_log[k].src]
        /\ \E i, j \in DOMAIN run[f].md5_log :
              LET a == run[f].md5_log[i]
                  b == run[f].md5_log[j]
              IN /\ i < j /\ a.h # NoFile /\ b.h # NoFile /\ a.h # b.h
                 /\ a.src \in Srcs(run[f].md5_filtered)
                 /\ b.src \in Srcs(run[f].md5_filtered)
                 /\ "ph" \in props[a.h].seen /\ "ph" \in props[b.h].seen
                 /\ props[a.h].ph.ok /\ props[b.h].ph.ok
                 /\ hamming_distance(props[a.h].ph.h, props[b.h].ph.h) <= NearDupThreshold

\* C29: no two records of the manifest have the same path, and total_images
\* in report.json is the number of distinct files listed.
C29_ManifestUniqueness ==
    /\ \A i, j \in DOMAIN main.manifest :
          main.manifest[i].path = main.manifest[j].path => i = j
    /\ main.pc = "end" =>
          main.report.total_images =
             Cardinality({main.manifest[i].path : i \in DOMAIN main.manifest})

\* The folder of the breed main takes next.
NextFolder == BreedDir(Slugs[main.breeds[main.idx + 1]])

\* C28: an exception raised inside an iteration ends that iteration only:
\* main takes the breeds one by one in list order, each after the iteration
\* before it has ended, normally or by an exception; inside an iteration the
\* engines are tried before the cleaning starts and never after; and
\* manifest.csv and report.json are written once each, after the iteration
\* of the last breed has ended, which always happens.
C28_PerBreedIsolation ==
    /\ [](/\ main.manifest_writes <= 1 /\ main.report_writes <= 1
          /\ main.manifest_writes = main.report_writes
          /\ main.manifest_writes = 1 =>
                /\ main.written_at = Len(main.breeds)
                /\ main.idx = Len(main.breeds)
                /\ \A f \in Folders : budget[f].calls = 0 /\ IterationEnded(run[f].pc))
    /\ [][/\ main'.idx # main.idx =>
                /\ main'.idx = main.idx + 1
                /\ \A f \in Folders : IterationEnded(run[f].pc)
                /\ run'[NextFolder].pc \in {"google", "bing", "clean"}
                /\ main.manifest_writes = 0
          /\ \A f \in Folders :
                /\ breed'[f].attempts # breed[f].attempts /\ main'.idx = main.idx =>
                      run[f].pc \in {"google", "bing"}
                /\ run[f].pc \in {"clean", "stage1", "stage2", "stage3", "stage4"} =>
                      run'[f].pc \notin {"google", "bing"}
                /\ run'[f].pc = "stage1" /\ run[f].pc # "stage1" => run[f].pc = "clean"]_vars
    /\ <>[](/\ main.pc = "end"
            /\ main.manifest_writes = 1 /\ main.report_writes = 1)

\* C28 witness: the program has ended having written both files once; the
\* first iteration ended by an exception, the iteration on the second folder
\* downloaded a picture and cleaned, and the third iteration, on the first
\* folder again, was run to its end.
C28_RaisedThenAllProcessed ==
    /\ main.pc = "end"
    /\ main.idx = Len(CAT_BREEDS)
    /\ main.manifest_writes = 1 /\ main.report_writes = 1
    /\ run["A"].hist = <<"raised">>
    /\ run["A"].ops # <<>>
    /\ run["B"].pc = "done"
    /\ breed["B"].attempts # <<>>
    /\ main.manifest # <<>>

====
